---- MODULE Spec2Model ----
(***************************************************************************)
(* Blanket: lexer, recursive-descent parser and tree-walking interpreter   *)
(* (src/Blanket.js), modelled as the state machine of one interpreting     *)
(* process: ParseCode is invoked on one source line after another and the  *)
(* root symbol table persists between the invocations.                     *)
(*                                                                         *)
(* A source text is a sequence of one-character strings.  A JavaScript     *)
(* number is a rational <<n, d>> in lowest terms (d > 0); <<0, 0>> stands  *)
(* for a result that is no rational (NaN, Infinity, an irrational power).  *)
(***************************************************************************)
EXTENDS Integers, Sequences, FiniteSets, TLC

VARIABLES code, pos, tokens, parsed, pc, symbols, result, lastAssigned

vars == <<code, pos, tokens, parsed, pc, symbols, result, lastAssigned>>

(***************************************************************************)
(* JavaScript numbers                                                      *)
(***************************************************************************)
Abs(n) == IF n < 0 THEN 0 - n ELSE n

RECURSIVE Gcd(_, _)
Gcd(a, b) == IF b = 0 THEN a ELSE Gcd(b, a % b)

NotRational == <<0, 0>>

Rat(n, d) ==
    IF d = 0 THEN NotRational
    ELSE LET g == Gcd(Abs(n), Abs(d))
             s == IF d < 0 THEN 0 - 1 ELSE 1
         IN  <<(s * n) \div g, (s * d) \div g>>

IntNum(n) == <<n, 1>>

IsRational(a) == a[2] # 0

RAdd(a, b) == IF IsRational(a) /\ IsRational(b) THEN Rat(a[1] * b[2] + b[1] * a[2], a[2] * b[2]) ELSE NotRational
RSub(a, b) == IF IsRational(a) /\ IsRational(b) THEN Rat(a[1] * b[2] - b[1] * a[2], a[2] * b[2]) ELSE NotRational
RMul(a, b) == IF IsRational(a) /\ IsRational(b) THEN Rat(a[1] * b[1], a[2] * b[2]) ELSE NotRational
RDiv(a, b) == IF IsRational(a) /\ IsRational(b) THEN Rat(a[1] * b[2], a[2] * b[1]) ELSE NotRational
RLess(a, b) == a[1] * b[2] < b[1] * a[2]

RECURSIVE IntPow(_, _)
IntPow(b, e) == IF e = 0 THEN 1 ELSE b * IntPow(b, e - 1)

\* Math.pow for an integral exponent; anything else is no rational
MathPow(a, b) ==
    IF ~(IsRational(a) /\ IsRational(b)) \/ b[2] # 1 THEN NotRational
    ELSE IF b[1] >= 0 THEN Rat(IntPow(a[1], b[1]), IntPow(a[2], b[1]))
    ELSE Rat(IntPow(a[2], 0 - b[1]), IntPow(a[1], 0 - b[1]))

\* JavaScript truthiness of a number: 0 (and NaN) are falsy
Truthy(a) == IsRational(a) /\ a[1] # 0

\* Number(b) of a boolean
BoolNum(b) == IF b THEN IntNum(1) ELSE IntNum(0)

(***************************************************************************)
(* Characters and the lexer's tables                                       *)
(***************************************************************************)
Digits == {"0", "1", "2", "3", "4", "5", "6", "7", "8", "9"}

DigitVal(c) ==
    CASE c = "0" -> 0 [] c = "1" -> 1 [] c = "2" -> 2 [] c = "3" -> 3 [] c = "4" -> 4
      [] c = "5" -> 5 [] c = "6" -> 6 [] c = "7" -> 7 [] c = "8" -> 8 [] c = "9" -> 9

Letters ==
    {"a", "b", "c", "d", "e", "f", "g", "h", "i", "j", "k", "l", "m",
     "n", "o", "p", "q", "r", "s", "t", "u", "v", "w", "x", "y", "z",
     "A", "B", "C", "D", "E", "F", "G", "H", "I", "J", "K", "L", "M",
     "N", "O", "P", "Q", "R", "S", "T", "U", "V", "W", "X", "Y", "Z"}

OPERATORS(c) ==
    CASE c = "+" -> "ADD_OP" [] c = "-" -> "SUB_OP" [] c = "*" -> "MULT_OP"
      [] c = "/" -> "DIV_OP" [] c = "^" -> "POW_OP" [] OTHER -> "undefined"

ComparatorKeys == {<<"=">>, <<"=", "=">>, <<">", "=">>, <<"<", "=">>, <<"<">>, <<">">>, <<"!", "=">>}

COMPARATORS(s) ==
    CASE s = <<"=">> -> "ASS_OP" [] s = <<"=", "=">> -> "COMP_EQ" [] s = <<">", "=">> -> "COMP_GTE"
      [] s = <<"<", "=">> -> "COMP_LTE" [] s = <<"<">> -> "COMP_LT" [] s = <<">">> -> "COMP_GT"
      [] s = <<"!", "=">> -> "COMP_NEQ"

ComparatorTypes == {COMPARATORS(s) : s \in ComparatorKeys}

kSclr == <<"s", "c", "l", "r">>
kAnd == <<"a", "n", "d">>
kOr == <<"o", "r">>
kNot == <<"n", "o", "t">>
kIf == <<"i", "f">>
kThen == <<"t", "h", "e", "n">>
kElif == <<"e", "l", "i", "f">>
kElse == <<"e", "l", "s", "e">>

KEYWORDS == {kSclr, kAnd, kOr, kNot, kIf, kThen, kElif, kElse}

\* const v = ...: the value is computed once and then named
Const(v, Rest(_)) == CHOOSE out \in {Rest(c) : c \in {v}} : TRUE

(***************************************************************************)
(* JavaScript values held by a token: a number, a string (the lexeme, kept *)
(* as its character sequence) or null                                      *)
(***************************************************************************)
JNum(r) == [t |-> "number", n |-> r, s |-> <<>>]
JStr(s) == [t |-> "string", n |-> IntNum(0), s |-> s]
JNull == [t |-> "null", n |-> IntNum(0), s |-> <<>>]

(***************************************************************************)
(* PositionTracker.  A JavaScript number stops growing under ++ at 2^53;   *)
(* NumberLimit is that limit scaled down (it exceeds every text length     *)
(* used here, so the lexing of a text that ends is unaffected).            *)
(***************************************************************************)
NumberLimit == 44

Increment(n) == IF n >= NumberLimit THEN n ELSE n + 1

PositionTracker(idx, col, line) == [idx |-> idx, col |-> col, line |-> line]

advance(p, current) ==
    IF current = "\n"
    THEN PositionTracker(Increment(p.idx), 1, Increment(p.line))
    ELSE PositionTracker(Increment(p.idx), Increment(p.col), p.line)

\* A position held by a token, a node, a value or an error: a copy() of the
\* tracker, the lexer's live tracker object itself (this.pos), or none.
copy(p) == [ref |-> "copy", idx |-> p.idx, col |-> p.col, line |-> p.line]
LivePos == [ref |-> "live", idx |-> 0, col |-> 0, line |-> 0]
NoPos == [ref |-> "none", idx |-> 0, col |-> 0, line |-> 0]

\* What a held position reads as once the live tracker stands at p
Deref(r, p) == IF r.ref = "live" THEN copy(p) ELSE r

(***************************************************************************)
(* BlanketLexer                                                            *)
(***************************************************************************)
Token(type, value, posStart, posEnd) ==
    [type |-> type, value |-> value, posStart |-> posStart, posEnd |-> posEnd]

\* code.charAt(idx): the empty string past the end
current(c, p) == IF p.idx < Len(c) THEN c[p.idx + 1] ELSE ""

\* String.prototype.includes: the empty string is included in every string
isDigit(ch) == ch \in Digits
isChar(ch) == ch \in Letters
isOperator(ch) == ch = "" \/ ch \in {"+", "-", "*", "/", "^"}
isComparator(ch) == ch = "" \/ ch \in {">", "<", "=", "!"}
isParen(ch) == ch = "" \/ ch \in {"(", ")"}
isWhitespace(ch) == ch = "" \/ ch \in {" ", "\t", "\r", "\n"}
isEndOfFile(c, p) == p.idx >= Len(c)

\* The outcome of a lexer routine: a token and the tracker after it, or a throw
\* (the string of an InvalidTokenErr's log(), or the TypeError that log() raises)
Lexed(tok, p) ==
    [threw |-> FALSE, tok |-> tok, pos |-> p, type |-> "", message |-> "", arg |-> <<>>, line |-> 0, col |-> 0]
LexThrow(type, message, arg, line, col, p) ==
    [threw |-> TRUE, tok |-> Token("undefined", JNull, NoPos, NoPos), pos |-> p,
     type |-> type, message |-> message, arg |-> arg, line |-> line, col |-> col]

\* parseInt / parseFloat of a run of digits with at most one dot
RECURSIVE DigitsValue(_)
DigitsValue(s) == IF s = <<>> THEN 0 ELSE 10 * DigitsValue(SubSeq(s, 1, Len(s) - 1)) + DigitVal(s[Len(s)])

RECURSIVE FracLen(_)
FracLen(s) == IF s = <<>> \/ s[Len(s)] = "." THEN 0 ELSE 1 + FracLen(SubSeq(s, 1, Len(s) - 1))

parseInt(s) == IntNum(DigitsValue(s))

parseFloat(s) ==
    Rat(DigitsValue(SelectSeq(s, LAMBDA ch : ch # ".")), IntPow(10, FracLen(s)))

RECURSIVE readNumLoop(_, _, _, _, _)
readNumLoop(c, start, p, numStr, dotCount) ==
    LET ch == current(c, p) IN
    IF isDigit(ch) \/ ch = "."
    THEN IF ch = "." /\ dotCount + 1 = 2
         THEN LexThrow("Invalid Token", "Bad Float", <<>>, p.line, p.col - 1, p)
         ELSE readNumLoop(c, start, advance(p, ch), Append(numStr, ch),
                          IF ch = "." THEN dotCount + 1 ELSE dotCount)
    ELSE IF dotCount = 0
         THEN Lexed(Token("INT", JNum(parseInt(numStr)), copy(start), LivePos), p)
         ELSE Lexed(Token("FLOAT", JNum(parseFloat(numStr)), copy(start), LivePos), p)

\* readNum with a dot counted before the run begins
readNum_DotCounted(c, p) == readNumLoop(c, p, p, <<>>, 1)

readNum(c, p) == readNumLoop(c, p, p, <<>>, 0)

RECURSIVE readIdentLoop(_, _, _, _)
readIdentLoop(c, start, p, charStr) ==
    LET ch == current(c, p) IN
    IF isChar(ch)
    THEN readIdentLoop(c, start, advance(p, ch), Append(charStr, ch))
    ELSE IF charStr \in KEYWORDS
         THEN Lexed(Token("KEYW", JStr(charStr), copy(start), LivePos), p)
         ELSE Lexed(Token("IDENT", JStr(charStr), copy(start), LivePos), p)

readIdent(c, p) == readIdentLoop(c, p, p, <<>>)

readComparator(c, p) ==
    LET first == current(c, p)
        p1 == advance(p, first)
        second == current(c, p1)
        two == isComparator(second)
        p2 == IF two THEN advance(p1, second) ELSE p1
        \* consume() returns "" past the end, and "=" + "" is "="
        lexeme == IF two /\ second # "" THEN <<first, second>> ELSE <<first>>
    IN  IF lexeme \in ComparatorKeys
        THEN Lexed(Token(COMPARATORS(lexeme), JStr(lexeme), copy(p), LivePos), p2)
        ELSE LexThrow("Invalid Token", "Bad Comparator", <<>>, p.line, p.col - 1, p2)

\* getToken after its whitespace line: the dispatch on the current character
readToken(c, p) ==
    LET ch == current(c, p)
        lexeme == IF ch = "" THEN <<>> ELSE <<ch>>
    IN  IF isDigit(ch) THEN readNum(c, p)
        ELSE IF isChar(ch) THEN readIdent(c, p)
        ELSE IF isOperator(ch)
             THEN Lexed(Token(OPERATORS(ch), JStr(lexeme), LivePos, LivePos), advance(p, ch))
        ELSE IF isParen(ch)
             THEN Lexed(Token(IF ch = "(" THEN "LPAREN" ELSE "RPAREN", JStr(lexeme), LivePos, LivePos),
                        advance(p, ch))
        ELSE IF isComparator(ch) THEN readComparator(c, p)
        \* the error is built without posStart, so log() reads .line of undefined
        ELSE LexThrow("TypeError", "", <<>>, 0, 0, p)

(***************************************************************************)
(* Errors                                                                  *)
(***************************************************************************)
BlanketErr(type, message, arg, posStart, posEnd) ==
    [type |-> type, message |-> message, arg |-> arg, posStart |-> posStart, posEnd |-> posEnd]

NoError == BlanketErr("none", "", <<>>, NoPos, NoPos)
IsError(e) == e.type # "none"

InvalidTokenErr(message, posStart, posEnd) == BlanketErr("Invalid Token", message, <<>>, posStart, posEnd)
SyntaxError(message, posStart, posEnd) == BlanketErr("Syntax Error", message, <<>>, posStart, posEnd)
RuntimeError(message, arg, posStart, posEnd) == BlanketErr("Runtime Error", message, arg, posStart, posEnd)

\* BlanketErr.log and RuntimeError.log: the fields of the string they format
log(e) ==
    [type |-> e.type, message |-> e.message, arg |-> e.arg, line |-> e.posStart.line,
     col |-> IF e.type = "Runtime Error" THEN e.posStart.col ELSE e.posStart.col - 1]

(***************************************************************************)
(* AST nodes                                                               *)
(***************************************************************************)
NullNode == [kind |-> "null"]

NumNode(tok) == [kind |-> "NumNode", value |-> tok.value.n, posStart |-> tok.posStart, posEnd |-> tok.posEnd]

SclrAccNode(tok) == [kind |-> "SclrAccNode", sclrName |-> tok.value.s, posStart |-> tok.posStart, posEnd |-> tok.posEnd]

SclrAssNode(name, expr) ==
    [kind |-> "SclrAssNode", nameToken |-> name, valNode |-> expr, posStart |-> name.posStart, posEnd |-> expr.posEnd]

OpNode(tok) == [type |-> tok.type, value |-> tok.value, posStart |-> tok.posStart]

UnaryNode(opTok, node) ==
    [kind |-> "UnaryNode", opNode |-> opTok, numNode |-> node, posStart |-> opTok.posStart, posEnd |-> node.posEnd]

BinaryNode(leftNode, operator, rightNode) ==
    [kind |-> "BinaryNode", leftNode |-> leftNode, operator |-> operator, rightNode |-> rightNode,
     posStart |-> leftNode.posStart, posEnd |-> rightNode.posEnd]

IfNode(cases, elseCase) ==
    [kind |-> "IfNode", cases |-> cases, elseCase |-> elseCase,
     posStart |-> cases[1][1].posStart,
     posEnd |-> (IF elseCase.kind # "null" THEN elseCase ELSE cases[Len(cases)][2]).posEnd]

(***************************************************************************)
(* ParseErrHandler, threaded with the parser's tokIdx (idx, one-based).    *)
(* undef marks the undefined that parseAtom returns from console.log;      *)
(* threw marks a TypeError on its way out of the parser.  raised records,   *)
(* in order, every error handed to failure() in the parse this handler     *)
(* has seen, with the number of tokens of the stream consumed by then.     *)
(***************************************************************************)
ParseErrHandler(idx) ==
    [node |-> NullNode, error |-> NoError, consCount |-> 0, idx |-> idx, undef |-> FALSE, threw |-> FALSE,
     raised |-> <<>>]

Undefined(idx) == [ParseErrHandler(idx) EXCEPT !.undef = TRUE]

\* res.regConsume(); this.consume()
regConsume(res) == [res EXCEPT !.consCount = @ + 1, !.idx = @ + 1]

\* res.register(sub): reading sub.consCount throws when sub is undefined
register(res, sub) ==
    IF sub.threw \/ sub.undef THEN [res EXCEPT !.threw = TRUE, !.idx = sub.idx]
    ELSE [res EXCEPT !.consCount = @ + sub.consCount,
                     !.error = IF IsError(sub.error) THEN sub.error ELSE @,
                     !.idx = sub.idx,
                     !.raised = @ \o sub.raised]

success(res, node) == [res EXCEPT !.node = node]

failure(res, error) ==
    [res EXCEPT !.error = IF ~IsError(res.error) \/ res.consCount = 0 THEN error ELSE @,
                !.raised = Append(@, [error |-> error, consumed |-> res.idx - 1])]

(***************************************************************************)
(* BlanketParser                                                           *)
(***************************************************************************)
\* consume() leaves currentTok at the last token once tokIdx passes the end
currentTok(toks, idx) == toks[IF idx < Len(toks) THEN idx ELSE Len(toks)]

matches(tok, type, value) == tok.type = type /\ tok.value = JStr(value)

RECURSIVE CallParser(_, _, _)
RECURSIVE getExpression(_, _)
RECURSIVE getComparison(_, _)
RECURSIVE getIdent(_, _)
RECURSIVE parseNumNode(_, _)
RECURSIVE parseAtom(_, _)
RECURSIVE ifExpression(_, _)
RECURSIVE ifClause(_, _, _)
RECURSIVE ifCases(_, _, _)
RECURSIVE makeBinaryTree(_, _, _, _, _)
RECURSIVE makeBinaryTreeLoop(_, _, _, _, _)

\* ops.includes(type) || ops.includes(`${type}, ${value}`)
OpMatches(ops, tok) ==
    \/ tok.type \in ops
    \/ tok.type = "KEYW" /\ tok.value = JStr(kOr) /\ "KEYW, or" \in ops
    \/ tok.type = "KEYW" /\ tok.value = JStr(kAnd) /\ "KEYW, and" \in ops

\* if (res.error) return res; a TypeError leaves the function as well
Stops(res) == res.threw \/ IsError(res.error)

makeBinaryTreeLoop(res, leftNode, ops, funcB, toks) ==
    Const(currentTok(toks, res.idx), LAMBDA operator :
      IF ~OpMatches(ops, operator) THEN success(res, leftNode)
      ELSE Const(regConsume(res), LAMBDA res1 :
           Const(CallParser(funcB, toks, res1.idx), LAMBDA rightNode :
           Const(register(res1, rightNode), LAMBDA res2 :
             IF Stops(res2) THEN res2
             ELSE makeBinaryTreeLoop(res2, BinaryNode(leftNode, OpNode(operator), rightNode.node),
                                     ops, funcB, toks)))))

makeBinaryTree(funcA, ops, funcB, toks, idx) ==
    Const(CallParser(funcA, toks, idx), LAMBDA leftNode :
    Const(register(ParseErrHandler(idx), leftNode), LAMBDA res :
      IF Stops(res) THEN res
      ELSE makeBinaryTreeLoop(res, leftNode.node, ops, funcB, toks)))

getExponentials_LeftFold(toks, idx) == makeBinaryTree("parseAtom", {"POW_OP"}, "parseAtom", toks, idx)

getExponentials(toks, idx) == makeBinaryTree("parseAtom", {"POW_OP"}, "parseNumNode", toks, idx)

\* getTerm folding over the additive operators
getTerm_Additive(toks, idx) == makeBinaryTree("parseNumNode", {"ADD_OP", "SUB_OP"}, "parseNumNode", toks, idx)

getTerm(toks, idx) == makeBinaryTree("parseNumNode", {"MULT_OP", "DIV_OP"}, "parseNumNode", toks, idx)

getArithmetic(toks, idx) == makeBinaryTree("getTerm", {"ADD_OP", "SUB_OP"}, "getTerm", toks, idx)

\* funcA.bind(this)() and funcB.bind(this)()
CallParser(func, toks, idx) ==
    CASE func = "parseAtom" -> parseAtom(toks, idx)
      [] func = "parseNumNode" -> parseNumNode(toks, idx)
      [] func = "getTerm" -> getTerm(toks, idx)
      [] func = "getArithmetic" -> getArithmetic(toks, idx)
      [] func = "getComparison" -> getComparison(toks, idx)

\* A condition, a 'then' and a result, after the 'if' or 'then' that res has
\* consumed; then the rest of the chain
ifClause(res, cases, toks) ==
    Const(getExpression(toks, res.idx), LAMBDA condition :
    Const(register(res, condition), LAMBDA res1 :
      IF Stops(res1) THEN res1
      ELSE Const(currentTok(toks, res1.idx), LAMBDA tok :
        IF ~matches(tok, "KEYW", kThen)
        THEN failure(res1, SyntaxError("Expected a 'then'", tok.posStart, tok.posEnd))
        ELSE Const(regConsume(res1), LAMBDA res2 :
             Const(getExpression(toks, res2.idx), LAMBDA expression :
             Const(register(res2, expression), LAMBDA res3 :
               IF Stops(res3) THEN res3
               ELSE ifCases(res3, Append(cases, <<condition.node, expression.node>>), toks)))))))

\* The while loop over further 'then' clauses, and the optional 'else'
ifCases(res, cases, toks) ==
    IF matches(currentTok(toks, res.idx), "KEYW", kThen)
    THEN ifClause(regConsume(res), cases, toks)
    ELSE IF matches(currentTok(toks, res.idx), "KEYW", kElse)
    THEN Const(regConsume(res), LAMBDA res1 :
         Const(getExpression(toks, res1.idx), LAMBDA elseCase :
         Const(register(res1, elseCase), LAMBDA res2 :
           IF Stops(res2) THEN res2
           ELSE success(res2, IfNode(cases, elseCase.node)))))
    ELSE success(res, IfNode(cases, NullNode))

ifExpression(toks, idx) ==
    Const(currentTok(toks, idx), LAMBDA tok :
      IF ~matches(tok, "KEYW", kIf)
      THEN failure(ParseErrHandler(idx), SyntaxError("Expected an 'if'", tok.posStart, tok.posEnd))
      ELSE ifClause(regConsume(ParseErrHandler(idx)), <<>>, toks))

parseAtom(toks, idx) ==
    Const(currentTok(toks, idx), LAMBDA tok :
      IF tok.type \in {"INT", "FLOAT"} THEN success(regConsume(ParseErrHandler(idx)), NumNode(tok))
      ELSE IF tok.type = "IDENT" THEN success(regConsume(ParseErrHandler(idx)), SclrAccNode(tok))
      ELSE IF tok.type = "LPAREN"
           THEN Const(regConsume(ParseErrHandler(idx)), LAMBDA res1 :
                Const(getExpression(toks, res1.idx), LAMBDA expr :
                Const(register(res1, expr), LAMBDA res2 :
                  IF Stops(res2) THEN res2
                  ELSE IF currentTok(toks, res2.idx).type = "RPAREN"
                       THEN success(regConsume(res2), expr.node)
                  \* return console.log("Error")
                  ELSE Undefined(res2.idx))))
      ELSE IF matches(tok, "KEYW", kIf)
           THEN Const(ifExpression(toks, idx), LAMBDA ifExpr :
                Const(register(ParseErrHandler(idx), ifExpr), LAMBDA res1 :
                  IF Stops(res1) THEN res1 ELSE success(res1, ifExpr.node)))
      ELSE failure(ParseErrHandler(idx),
                   InvalidTokenErr("Expected an Integer/Float/Identifier/Operator", tok.posStart, tok.posEnd)))

parseNumNode(toks, idx) ==
    Const(currentTok(toks, idx), LAMBDA tok :
      IF tok.type \in {"ADD_OP", "SUB_OP"}
      THEN Const(regConsume(ParseErrHandler(idx)), LAMBDA res1 :
           Const(parseNumNode(toks, res1.idx), LAMBDA factor :
           Const(register(res1, factor), LAMBDA res2 :
             IF Stops(res2) THEN res2
             ELSE success(res2, UnaryNode(OpNode(tok), factor.node)))))
      ELSE getExponentials(toks, idx))

getIdent(toks, idx) ==
    Const(currentTok(toks, idx), LAMBDA varName :
      IF varName.type # "IDENT"
      THEN failure(ParseErrHandler(idx), SyntaxError("Expected Identifier", varName.posStart, varName.posEnd))
      ELSE Const(regConsume(ParseErrHandler(idx)), LAMBDA res1 :
           Const(currentTok(toks, res1.idx), LAMBDA tok :
             IF tok.value # JStr(<<"=">>)
             THEN failure(res1, SyntaxError("Expected '='", tok.posStart, tok.posEnd))
             ELSE Const(regConsume(res1), LAMBDA res2 :
                  Const(getExpression(toks, res2.idx), LAMBDA expr :
                  Const(register(res2, expr), LAMBDA res3 :
                    IF Stops(res3) THEN res3
                    ELSE success(res3, SclrAssNode(varName, expr.node))))))))

getComparison(toks, idx) ==
    Const(currentTok(toks, idx), LAMBDA opTok :
      IF matches(opTok, "KEYW", kNot)
      THEN Const(regConsume(ParseErrHandler(idx)), LAMBDA res1 :
           Const(getComparison(toks, res1.idx), LAMBDA node :
           Const(register(res1, node), LAMBDA res2 :
             IF Stops(res2) THEN res2
             ELSE success(res2, UnaryNode(opTok, node.node)))))
      ELSE Const(makeBinaryTree("getArithmetic", ComparatorTypes, "getArithmetic", toks, idx), LAMBDA node :
           Const(register(ParseErrHandler(idx), node), LAMBDA res1 :
           Const(currentTok(toks, res1.idx), LAMBDA tok :
             IF res1.threw THEN res1
             ELSE IF IsError(res1.error)
                  THEN failure(res1, InvalidTokenErr("Expected an Integer/Float/Identifier/Operator/Comparator",
                                                     tok.posStart, tok.posEnd))
             ELSE success(res1, node.node)))))

getExpression(toks, idx) ==
    IF matches(currentTok(toks, idx), "KEYW", kSclr)
    THEN getIdent(toks, regConsume(ParseErrHandler(idx)).idx)
    ELSE Const(makeBinaryTree("getComparison", {"KEYW, or", "KEYW, and"}, "getComparison", toks, idx), LAMBDA node :
         Const(register(ParseErrHandler(idx), node), LAMBDA res1 :
         Const(currentTok(toks, res1.idx), LAMBDA tok :
           IF res1.threw THEN res1
           ELSE IF IsError(res1.error)
                THEN failure(res1, InvalidTokenErr("Expected an Integer/Float/Identifier/Operator/'sclr'",
                                                   tok.posStart, tok.posEnd))
           ELSE success(res1, node.node))))

parseTokens(toks) ==
    Const(getExpression(toks, 1), LAMBDA result_ :
    Const(currentTok(toks, result_.idx), LAMBDA tok :
      IF result_.threw THEN result_
      ELSE IF IsError(result_.error) /\ tok.type # "EOF"
           THEN failure(result_, SyntaxError("Bad Expression", tok.posStart, tok.posStart))
      ELSE result_))

(***************************************************************************)
(* IntrpNumber and the other things a symbol lookup can return             *)
(***************************************************************************)
IntrpNumber(value) == [kind |-> "IntrpNumber", value |-> value, posStart |-> NoPos, posEnd |-> NoPos]
NullValue == [kind |-> "null", value |-> IntNum(0), posStart |-> NoPos, posEnd |-> NoPos]
UndefinedValue == [kind |-> "undefined", value |-> IntNum(0), posStart |-> NoPos, posEnd |-> NoPos]
FunctionValue == [kind |-> "function", value |-> IntNum(0), posStart |-> NoPos, posEnd |-> NoPos]

setPos(number, posStart, posEnd) == [number EXCEPT !.posStart = posStart, !.posEnd = posEnd]

\* The arithmetic methods return [result, error]
Pair(number, error) == [number |-> number, error |-> error]

addedTo(this, other) == Pair(IntrpNumber(RAdd(this.value, other.value)), NoError)
subbedBy(this, other) == Pair(IntrpNumber(RSub(this.value, other.value)), NoError)
multedBy(this, other) == Pair(IntrpNumber(RMul(this.value, other.value)), NoError)
powerTo(this, other) == Pair(IntrpNumber(MathPow(this.value, other.value)), NoError)

dividedBy_Unchecked(this, other) == Pair(IntrpNumber(RDiv(this.value, other.value)), NoError)

dividedBy(this, other) ==
    IF other.value = IntNum(0)
    THEN Pair(NullValue, RuntimeError("Division by zero", <<>>, other.posStart, other.posEnd))
    ELSE Pair(IntrpNumber(RDiv(this.value, other.value)), NoError)

getCompGT(this, other) == Pair(IntrpNumber(BoolNum(RLess(other.value, this.value))), NoError)
getCompGTE(this, other) == Pair(IntrpNumber(BoolNum(~RLess(this.value, other.value))), NoError)
getCompST(this, other) == Pair(IntrpNumber(BoolNum(RLess(this.value, other.value))), NoError)
getCompSTE(this, other) == Pair(IntrpNumber(BoolNum(~RLess(other.value, this.value))), NoError)
getCompEQ(this, other) == Pair(IntrpNumber(BoolNum(this.value = other.value)), NoError)
getCompNEQ(this, other) == Pair(IntrpNumber(BoolNum(this.value # other.value)), NoError)

ORedBy_Boolean(this, other) ==
    Pair(IntrpNumber(BoolNum(Truthy(this.value) \/ Truthy(other.value))), NoError)

\* this.value || other.value
ORedBy(this, other) ==
    Pair(IntrpNumber(IF Truthy(this.value) THEN this.value ELSE other.value), NoError)

\* Number(this.value && other.value)
ANDedBy(this, other) ==
    Pair(IntrpNumber(IF Truthy(this.value) THEN other.value ELSE this.value), NoError)

notted(this) == Pair(IntrpNumber(BoolNum(~Truthy(this.value))), NoError)

(***************************************************************************)
(* SymbolTable: symbols is a plain object, so a name that is not an own    *)
(* property is looked up in Object.prototype                               *)
(***************************************************************************)
ObjectPrototype ==
    {<<"c", "o", "n", "s", "t", "r", "u", "c", "t", "o", "r">>,
     <<"t", "o", "S", "t", "r", "i", "n", "g">>,
     <<"v", "a", "l", "u", "e", "O", "f">>,
     <<"t", "o", "L", "o", "c", "a", "l", "e", "S", "t", "r", "i", "n", "g">>,
     <<"h", "a", "s", "O", "w", "n", "P", "r", "o", "p", "e", "r", "t", "y">>,
     <<"i", "s", "P", "r", "o", "t", "o", "t", "y", "p", "e", "O", "f">>,
     <<"p", "r", "o", "p", "e", "r", "t", "y", "I", "s", "E", "n", "u", "m", "e", "r", "a", "b", "l", "e">>}

SymbolTableGet(table, name) ==
    IF name \in DOMAIN table THEN table[name]
    ELSE IF name \in ObjectPrototype THEN FunctionValue
    ELSE UndefinedValue

SymbolTableSet_FirstWriteWins(table, name, value) ==
    IF name \in DOMAIN table THEN table ELSE (name :> value) @@ table

SymbolTableSet(table, name, value) == (name :> value) @@ table

globalSymTable ==
    (<<"n", "u", "l", "l">> :> IntrpNumber(IntNum(0))) @@
    (<<"t", "r", "u", "e">> :> IntrpNumber(IntNum(1))) @@
    (<<"f", "a", "l", "s", "e">> :> IntrpNumber(IntNum(0)))

(***************************************************************************)
(* RTErrHandler, threaded with the symbol table the visit leaves behind.   *)
(* threw marks a TypeError on its way out of the interpreter.              *)
(***************************************************************************)
RTErrHandler(table) == [value |-> NullValue, error |-> NoError, table |-> table, threw |-> FALSE]

RTregister(res, sub) ==
    IF sub.threw THEN [res EXCEPT !.threw = TRUE, !.table = sub.table]
    ELSE [res EXCEPT !.error = IF IsError(sub.error) THEN sub.error ELSE @, !.table = sub.table]

RTsuccess(res, value) == [res EXCEPT !.value = value]
RTfailure(res, error) == [res EXCEPT !.error = error]
RTthrow(res) == [res EXCEPT !.threw = TRUE]

\* An object is truthy; null and undefined are not
IsObject(v) == v.kind \in {"IntrpNumber", "function"}

(***************************************************************************)
(* BlanketInterpreter                                                      *)
(***************************************************************************)
RECURSIVE visit(_, _)
RECURSIVE visitCases(_, _, _, _)

visitNumNode(node, table) ==
    RTsuccess(RTErrHandler(table), setPos(IntrpNumber(node.value), node.posStart, node.posEnd))

\* The operator dispatch of visitBinaryNode; no branch takes "=", which
\* leaves result = Number, and Number.setPos is not a function
BinaryOperation(op, leftNode, rightNode) ==
    CASE op = <<"+">> -> addedTo(leftNode, rightNode)
      [] op = <<"-">> -> subbedBy(leftNode, rightNode)
      [] op = <<"*">> -> multedBy(leftNode, rightNode)
      [] op = <<"/">> -> dividedBy(leftNode, rightNode)
      [] op = <<"^">> -> powerTo(leftNode, rightNode)
      [] op = <<">">> -> getCompGT(leftNode, rightNode)
      [] op = <<"<">> -> getCompST(leftNode, rightNode)
      [] op = <<">", "=">> -> getCompGTE(leftNode, rightNode)
      [] op = <<"<", "=">> -> getCompSTE(leftNode, rightNode)
      [] op = <<"!", "=">> -> getCompNEQ(leftNode, rightNode)
      [] op = <<"=", "=">> -> getCompEQ(leftNode, rightNode)
      [] op = <<"a", "n", "d">> -> ANDedBy(leftNode, rightNode)
      [] op = <<"o", "r">> -> ORedBy(leftNode, rightNode)
      [] OTHER -> Pair(FunctionValue, NoError)

\* visitBinaryNode leaving the right operand of `and` and `or` unevaluated
\* when the left value settles the result
visitBinaryNode_ShortCircuit(node, table) ==
    LET res == RTErrHandler(table)
        left == visit(node.leftNode, table)
        res1 == RTregister(res, left)
        op == node.operator.value.s
        skips == \/ op = kOr /\ Truthy(left.value.value)
                 \/ op = kAnd /\ ~Truthy(left.value.value)
        right == visit(node.rightNode, res1.table)
        res2 == RTregister(res1, right)
        out == BinaryOperation(op, left.value, right.value)
    IN  IF res1.threw \/ IsError(res1.error) THEN res1
        ELSE IF left.value.kind = "IntrpNumber" /\ skips
             THEN RTsuccess(res1, setPos(left.value, node.posStart, node.posEnd))
        ELSE IF res2.threw \/ IsError(res2.error) THEN res2
        ELSE IF left.value.kind # "IntrpNumber" \/ right.value.kind # "IntrpNumber" THEN RTthrow(res2)
        ELSE IF IsError(out.error) THEN RTfailure(res2, out.error)
        ELSE IF out.number.kind # "IntrpNumber" THEN RTthrow(res2)
        ELSE RTsuccess(res2, setPos(out.number, node.posStart, node.posEnd))

visitBinaryNode(node, table) ==
    LET res == RTErrHandler(table)
        left == visit(node.leftNode, table)
        res1 == RTregister(res, left)
        right == visit(node.rightNode, res1.table)
        res2 == RTregister(res1, right)
        out == BinaryOperation(node.operator.value.s, left.value, right.value)
    IN  IF res1.threw \/ IsError(res1.error) THEN res1
        ELSE IF res2.threw \/ IsError(res2.error) THEN res2
        \* a method call on null, or destructuring the undefined a method returns
        ELSE IF left.value.kind # "IntrpNumber" \/ right.value.kind # "IntrpNumber" THEN RTthrow(res2)
        ELSE IF IsError(out.error) THEN RTfailure(res2, out.error)
        ELSE IF out.number.kind # "IntrpNumber" THEN RTthrow(res2)
        ELSE RTsuccess(res2, setPos(out.number, node.posStart, node.posEnd))

visitUnaryNode(node, table) ==
    LET res == RTErrHandler(table)
        sub == visit(node.numNode, table)
        res1 == RTregister(res, sub)
        op == node.opNode.value.s
        out == IF op = <<"-">> THEN multedBy(sub.value, IntrpNumber(IntNum(0 - 1)))
               ELSE IF op = <<"n", "o", "t">> THEN notted(sub.value)
               ELSE Pair(sub.value, NoError)
    IN  IF res1.threw \/ IsError(res1.error) THEN res1
        ELSE IF sub.value.kind # "IntrpNumber" THEN RTthrow(res1)
        ELSE IF IsError(out.error) THEN RTfailure(res1, out.error)
        ELSE RTsuccess(res1, setPos(out.number, node.numNode.posStart, node.numNode.posEnd))

visitSclrAccNode(node, table) ==
    LET res == RTErrHandler(table)
        value == SymbolTableGet(table, node.sclrName)
    IN  IF ~IsObject(value)
        THEN RTfailure(res, RuntimeError("is not defined", node.sclrName, node.posStart, node.posEnd))
        \* value.copy is not a function
        ELSE IF value.kind # "IntrpNumber" THEN RTthrow(res)
        ELSE RTsuccess(res, setPos(value, node.posStart, node.posEnd))

\* visitSclrAssNode writing the name before it looks at the error
visitSclrAssNode_WriteFirst(node, table) ==
    LET res == RTErrHandler(table)
        sub == visit(node.valNode, table)
        res1 == RTregister(res, sub)
    IN  IF res1.threw THEN res1
        ELSE RTsuccess([res1 EXCEPT !.table = SymbolTableSet(res1.table, node.nameToken.value.s, sub.value)],
                       sub.value)

visitSclrAssNode(node, table) ==
    LET res == RTErrHandler(table)
        sub == visit(node.valNode, table)
        res1 == RTregister(res, sub)
    IN  IF res1.threw \/ IsError(res1.error) THEN res1
        ELSE RTsuccess([res1 EXCEPT !.table = SymbolTableSet(res1.table, node.nameToken.value.s, sub.value)],
                       sub.value)

visitCases(node, i, res, table) ==
    IF i > Len(node.cases)
    THEN IF node.elseCase.kind # "null"
         THEN LET sub == visit(node.elseCase, table)
                  res1 == RTregister(res, sub)
              IN  IF res1.threw \/ IsError(res1.error) THEN res1 ELSE RTsuccess(res1, sub.value)
         ELSE RTsuccess(res, NullValue)
    ELSE LET cond == visit(node.cases[i][1], table)
             res1 == RTregister(res, cond)
             expr == visit(node.cases[i][2], res1.table)
             res2 == RTregister(res1, expr)
         IN  IF res1.threw \/ IsError(res1.error) THEN res1
             \* if (condValue): condValue is the IntrpNumber object, not its value
             ELSE IF IsObject(cond.value)
                  THEN IF res2.threw \/ IsError(res2.error) THEN res2 ELSE RTsuccess(res2, expr.value)
             ELSE visitCases(node, i + 1, res1, res1.table)

visitIfNode(node, table) == visitCases(node, 1, RTErrHandler(table), table)

\* visit restoring the table it was given when the evaluation fails
visit_Rollback(node, table) ==
    LET out == CASE node.kind = "NumNode" -> visitNumNode(node, table)
                 [] node.kind = "BinaryNode" -> visitBinaryNode(node, table)
                 [] node.kind = "UnaryNode" -> visitUnaryNode(node, table)
                 [] node.kind = "SclrAccNode" -> visitSclrAccNode(node, table)
                 [] node.kind = "SclrAssNode" -> visitSclrAssNode(node, table)
                 [] node.kind = "IfNode" -> visitIfNode(node, table)
    IN  IF IsError(out.error) THEN [out EXCEPT !.table = table] ELSE out

visit(node, table) ==
    CASE node.kind = "NumNode" -> visitNumNode(node, table)
      [] node.kind = "BinaryNode" -> visitBinaryNode(node, table)
      [] node.kind = "UnaryNode" -> visitUnaryNode(node, table)
      [] node.kind = "SclrAccNode" -> visitSclrAccNode(node, table)
      [] node.kind = "SclrAssNode" -> visitSclrAssNode(node, table)
      [] node.kind = "IfNode" -> visitIfNode(node, table)

(***************************************************************************)
(* Source texts fed to ParseCode                                           *)
(***************************************************************************)
RECURSIVE Text(_)
Text(words) ==
    IF Len(words) = 0 THEN <<>>
    ELSE IF Len(words) = 1 THEN words[1]
    ELSE words[1] \o <<" ">> \o Text(Tail(words))

Conditions == {<<"0">>, <<"1">>, <<"1", "=", "=", "1">>, <<"1", "=", "=", "2">>}

IfTexts ==
    {Text(<<kIf, c, kThen, <<"1", "0">>, kElse, <<"2", "0">>>>) : c \in Conditions}
    \cup {Text(<<kIf, c, kThen, <<"1", "0">>, kThen, d, kThen, <<"3", "0">>, kElse, <<"2", "0">>>>) :
            c \in {<<"0">>, <<"1">>}, d \in {<<"0">>, <<"1", "=", "=", "1">>}}

\* Conditionals without an else whose conditions all evaluate to 0
NoElseTexts ==
    {Text(<<kIf, c, kThen, <<"1", "0">>>>) : c \in {<<"0">>, <<"1", "=", "=", "2">>, <<"0", ".", "0">>}}
    \cup {Text(<<kIf, <<"0">>, kThen, <<"1", "0">>, kThen, <<"1", "=", "=", "2">>, kThen, <<"3", "0">>>>)}

\* Expressions whose value tells the binding order of two levels, or the
\* direction in which a level folds, with the value the order gives them
PrecedenceCases ==
    {[text |-> <<"1", "+", "2", "*", "3">>, value |-> 7],
     [text |-> <<"(", "1", "+", "2", ")", "*", "3">>, value |-> 9],
     [text |-> <<"-", "2", "^", "2">>, value |-> -4],
     [text |-> <<"1", " ", "o", "r", " ", "0", " ", "a", "n", "d", " ", "0">>, value |-> 0],
     [text |-> <<"2", "*", "3", "+", "1">>, value |-> 7],
     [text |-> <<"8", "-", "3", "-", "2">>, value |-> 3],
     [text |-> <<"8", "/", "4", "/", "2">>, value |-> 1],
     [text |-> <<"2", "*", "3", "^", "2">>, value |-> 18],
     [text |-> <<"2", "*", "-", "3">>, value |-> -6],
     [text |-> <<"-", "2", "*", "3">>, value |-> -6],
     [text |-> <<"2", "+", "1", "=", "=", "3">>, value |-> 1],
     [text |-> <<"0", " ", "a", "n", "d", " ", "0", "=", "=", "0">>, value |-> 0],
     [text |-> <<"n", "o", "t", " ", "0", " ", "a", "n", "d", " ", "0">>, value |-> 0],
     [text |-> <<"n", "o", "t", " ", "2", "=", "=", "1">>, value |-> 1],
     [text |-> <<"3", ">", "2", ">", "1">>, value |-> 0],
     [text |-> <<"0", " ", "a", "n", "d", " ", "1", " ", "o", "r", " ", "1">>, value |-> 1],
     [text |-> <<"2", "*", "(", "3", "+", "1", ")">>, value |-> 8],
     [text |-> <<"(", "(", "2", ")", ")", "^", "2">>, value |-> 4],
     [text |-> <<"1", "-", "2", "+", "3">>, value |-> 2],
     [text |-> <<"1", "<", "2", "+", "3">>, value |-> 1]}

PrecedenceTexts == {k.text : k \in PrecedenceCases}

\* Texts that end in an error, with the kind of the error and the one-based
\* line and column of the first character of the lexeme it is raised at
ErrorCases ==
    {[text |-> <<"!">>, type |-> "Invalid Token", line |-> 1, col |-> 1],
     [text |-> <<"\n", "!">>, type |-> "Invalid Token", line |-> 2, col |-> 1],
     [text |-> <<"1", " ", "!">>, type |-> "Invalid Token", line |-> 1, col |-> 3],
     [text |-> <<"s", "c", "l", "r", " ", "1">>, type |-> "Syntax Error", line |-> 1, col |-> 6],
     [text |-> <<"i", "f", " ", "1", " ", "2">>, type |-> "Syntax Error", line |-> 1, col |-> 6],
     [text |-> <<"s", "c", "l", "r", " ", "x", " ", "1">>, type |-> "Syntax Error", line |-> 1, col |-> 8],
     [text |-> <<"y">>, type |-> "Runtime Error", line |-> 1, col |-> 1],
     [text |-> <<"5", "/", "0">>, type |-> "Runtime Error", line |-> 1, col |-> 3],
     [text |-> <<"y", "+", "1">>, type |-> "Runtime Error", line |-> 1, col |-> 1]}

ErrorTexts == {k.text : k \in ErrorCases}

Operands == {<<"0">>, <<"1">>, <<"2">>, <<"3">>, <<"5">>, <<"7">>, <<"0", ".", "0">>, <<"0", ".", "5">>}

AndTexts == {Text(<<a, kAnd, b>>) : a \in Operands, b \in Operands}
OrTexts == {Text(<<a, kOr, b>>) : a \in Operands, b \in Operands}

Bases == {<<"2">>, <<"3">>}
PowTexts == {a \o <<"^">> \o b \o <<"^">> \o c : a \in Bases, b \in Bases, c \in {<<"1">>, <<"2">>}}

Divisors ==
    {<<"0">>, <<"0", ".", "0">>, <<"z">>, <<"(", "1", "-", "1", ")">>, <<"-", "0">>,
     <<"2">>, <<"0", ".", "5">>, <<"x">>, <<"(", "1", "+", "2", ")">>}

Dividends == {<<"5">>, <<"0">>, <<"x">>}

DivTexts == {a \o <<"/">> \o b : a \in Dividends, b \in Divisors}

Names == {<<"x">>, <<"z">>}

AssignTexts ==
    {Text(<<kSclr, <<"x">>, <<"=">>, v>>) : v \in {<<"1">>, <<"2">>, <<"5">>, <<"1", "/", "0">>, <<"y">>}}
    \cup {Text(<<kSclr, <<"z">>, <<"=">>, <<"0">>>>)}

\* Assignments whose right-hand side holds an assignment and then fails
NestedAssignTexts ==
    {Text(<<kSclr, <<"x">>, <<"=">>, <<"(">> \o Text(<<kSclr, <<"x">>, <<"=">>, <<"1">>>>) \o <<")">>, <<"+">>, <<"y">>>>),
     Text(<<kSclr, <<"x">>, <<"=">>, <<"(">> \o Text(<<kSclr, <<"x">>, <<"=">>, <<"1">>>>) \o <<")">>, <<"/">>, <<"0">>>>)}

\* Conditionals whose assignments all sit in a later condition, in the
\* result of a pair that is not the first with a nonzero condition, or in an
\* else that follows such a pair
SelectedFirstTexts ==
    {Text(<<kIf, <<"1">>, kThen, <<"1", "0">>, kThen, kSclr, <<"x">>, <<"=">>, <<"7">>, kThen, <<"3", "0">>>>),
     Text(<<kIf, <<"1">>, kThen, <<"1", "0">>, kElse, <<"(">> \o Text(<<kSclr, <<"x">>, <<"=">>, <<"1">>>>) \o <<")">>>>)}

SelectedLaterTexts ==
    {Text(<<kIf, <<"0">>, kThen, <<"(">> \o Text(<<kSclr, <<"x">>, <<"=">>, <<"1">>>>) \o <<")">>, kElse, <<"2">>>>)}

BranchAssignTexts == SelectedFirstTexts \cup SelectedLaterTexts

\* Binary operations with an assignment or a failure in an operand
AssignX == <<"(">> \o Text(<<kSclr, <<"x">>, <<"=">>, <<"1">>>>) \o <<")">>

OperandOrderTexts ==
    {Text(<<<<"1">>, kOr, <<"1", "/", "0">>>>),
     Text(<<<<"0">>, kAnd, AssignX>>),
     Text(<<<<"1">>, kOr, AssignX>>),
     Text(<<<<"(", "1", "/", "0", ")">>, <<"+">>, AssignX>>),
     Text(<<AssignX, <<"+">>, <<"x">>>>),
     Text(<<<<"x">>, <<"+">>, AssignX>>)}

\* An assignment followed by a failure of the interpreter, of the parser and
\* of the lexer
FailAfterAssignText == Text(<<AssignX, <<"+">>, <<"1", "/", "0">>>>)

FailBeforeVisitTexts ==
    {Text(<<AssignX, <<"+">>, <<")">>>>),
     Text(<<kSclr, <<"x">>, <<"=">>, <<"1">>, <<"$">>>>),
     Text(<<kSclr, <<"x">>, <<"=">>, <<"1", ".", "2", ".", "3">>>>)}

ReferenceTexts ==
    {<<"x">>, <<"z">>, <<"y">>, <<"x", "+", "1">>, <<"y", "+", "1">>, <<"t", "r", "u", "e">>,
     <<"c", "o", "n", "s", "t", "r", "u", "c", "t", "o", "r">>,
     <<"v", "a", "l", "u", "e", "O", "f">>}

\* Texts whose parse ends in an error
SyntaxErrorTexts ==
    {<<"(", ")">>, <<"1", " ", "a", "n", "d", " ", ")">>, <<"1", "+", ")">>, <<"n", "o", "t", " ", ")">>,
     <<"s", "c", "l", "r", " ", "x", " ", "=", " ", ")">>, <<"i", "f", " ", ")">>, <<"s", "c", "l", "r">>}

MalformedTexts ==
    SyntaxErrorTexts \cup
    {<<"1", " ", "2">>, <<"x", "1">>, <<"1", " ", ")">>, <<"(", "1", "+", "2">>, <<"(", "1">>,
     <<"(", "1", "+", "2", ")">>, <<"1", "+">>, <<")">>, <<"1", "=", "2">>}

\* Texts that hold a character the lexer has no rule for
UnrecognizedTexts == {<<"$">>, <<".", "5">>, <<"1", "$">>, <<"1", " ", "+", " ", "#">>, <<"\n", "_">>}

\* Texts that begin with a run of digits and dots
NumberTexts ==
    {<<"1", "2">>, <<"1", ".", "5">>, <<"1", ".">>, <<"7", ".", "2", "5">>, <<"1", "2", "+", "3">>,
     <<"1", ".", "5", "+", "2">>, <<"1", ".", "2", ".", "3">>, <<"1", ".", ".", "2">>, <<"1", "2", ".", "5", ".">>}

LexerTexts ==
    {<<>>, <<"1">>, <<" ", "1">>, <<"1", " ", "+", "\n", "2">>, <<"1", " ">>, <<"1", "\t">>,
     <<"1", "\r">>, <<"1", "\n">>, <<" ">>, <<"!">>}
    \cup UnrecognizedTexts \cup NumberTexts

Programs ==
    IfTexts \cup NoElseTexts \cup {FailAfterAssignText} \cup FailBeforeVisitTexts \cup OperandOrderTexts \cup BranchAssignTexts \cup NestedAssignTexts \cup ErrorTexts \cup PrecedenceTexts \cup AndTexts \cup OrTexts \cup PowTexts \cup DivTexts \cup AssignTexts
    \cup ReferenceTexts \cup MalformedTexts \cup LexerTexts

(***************************************************************************)
(* What one invocation of ParseCode gave its caller: a value, the string   *)
(* of an error's log(), or an exception                                    *)
(***************************************************************************)
NoLog == [type |-> "none", message |-> "", arg |-> <<>>, line |-> 0, col |-> 0]
ErrorLog(type, message, arg, line, col) == [type |-> type, message |-> message, arg |-> arg, line |-> line, col |-> col]

Outcome(kind, value, err) == [kind |-> kind, value |-> value, err |-> err]
Pending == Outcome("pending", NullValue, NoLog)
Returned(value) == Outcome("value", value, NoLog)
ReturnedLog(err) == Outcome("error", NullValue, err)
Thrown(err) == Outcome("throw", NullValue, err)
TypeError == ErrorLog("TypeError", "", <<>>, 0, 0)

\* return IntrpRes.value ? IntrpRes.value : IntrpRes.error.log()
ReturnOf(res) ==
    IF res.threw THEN Thrown(TypeError)
    ELSE IF IsObject(res.value) THEN Returned(res.value)
    ELSE IF IsError(res.error) THEN ReturnedLog(log(res.error))
    ELSE Thrown(TypeError)

(***************************************************************************)
(* What the caller of ParseCode has seen: for each name, the value that    *)
(* the latest invocation of the form `sclr n = e` returned.  An invocation *)
(* that holds `sclr n` in any other way, or that did not return a value,   *)
(* leaves the caller without knowledge of n.                               *)
(***************************************************************************)
NeverAssigned == [status |-> "never", value |-> IntNum(0)]

IsSclr(tok) == tok.type = "KEYW" /\ tok.value = JStr(kSclr)

HoldsAssignment(toks, n) ==
    \E i \in 1..(Len(toks) - 1) : IsSclr(toks[i]) /\ toks[i + 1].type = "IDENT" /\ toks[i + 1].value = JStr(n)

IsAssignmentOf(toks, n) ==
    /\ HoldsAssignment(toks, n)
    /\ IsSclr(toks[1])
    /\ \A i \in 2..Len(toks) : ~IsSclr(toks[i])

Observe(seen, n, toks, outcome) ==
    IF ~HoldsAssignment(toks, n) THEN seen
    ELSE IF IsAssignmentOf(toks, n) /\ outcome.kind = "value"
         THEN [status |-> "value", value |-> outcome.value.value]
    ELSE IF IsAssignmentOf(toks, n) THEN seen
    ELSE [status |-> "unknown", value |-> IntNum(0)]

\* Every position of a token as it reads once the lexer has finished at p
ResolveToken(tok, p) == [tok EXCEPT !.posStart = Deref(@, p), !.posEnd = Deref(@, p)]
ResolveTokens(toks, p) == [i \in 1..Len(toks) |-> ResolveToken(toks[i], p)]

(***************************************************************************)
(* The state machine                                                       *)
(***************************************************************************)
Init ==
    /\ code = <<>>
    /\ pos = PositionTracker(0, 1, 1)
    /\ tokens = <<>>
    /\ parsed = ParseErrHandler(1)
    /\ pc = "idle"
    /\ symbols = globalSymTable
    /\ result = Pending
    /\ lastAssigned = [n \in Names |-> NeverAssigned]

\* ParseCode(code): new BlanketLexer(null, code).tokenizeAll() begins
ParseCode(c) ==
    /\ pc = "idle"
    /\ code' = c
    /\ pos' = PositionTracker(0, 1, 1)
    /\ tokens' = <<>>
    /\ parsed' = ParseErrHandler(1)
    /\ pc' = "tokenizeAll"
    /\ result' = Pending
    /\ UNCHANGED <<symbols, lastAssigned>>

\* The loop head of tokenizeAll, and the EOF token after the loop
TokenizeAll ==
    /\ pc = "tokenizeAll"
    /\ IF isEndOfFile(code, pos)
       THEN /\ tokens' = Append(tokens, Token("EOF", JNull, LivePos, NoPos))
            /\ pc' = "parseTokens"
       ELSE /\ pc' = "getToken"
            /\ UNCHANGED tokens
    /\ UNCHANGED <<code, pos, parsed, symbols, result, lastAssigned>>

\* getToken: if (this.isWhitespace()) this.omitWhitespace()
GetToken ==
    /\ pc = "getToken"
    /\ pc' = IF isWhitespace(current(code, pos)) THEN "omitWhitespace" ELSE "readToken"
    /\ UNCHANGED <<code, pos, tokens, parsed, symbols, result, lastAssigned>>

\* One turn of the loop of omitWhitespace
OmitWhitespace ==
    /\ pc = "omitWhitespace"
    /\ IF isWhitespace(current(code, pos))
       THEN /\ pos' = advance(pos, current(code, pos))
            /\ UNCHANGED pc
       ELSE /\ pc' = "readToken"
            /\ UNCHANGED pos
    /\ UNCHANGED <<code, tokens, parsed, symbols, result, lastAssigned>>

\* The rest of getToken, and tokens.push of what it returns
ReadToken ==
    /\ pc = "readToken"
    /\ LET lexed == readToken(code, pos) IN
       /\ pos' = lexed.pos
       /\ IF lexed.threw
          THEN /\ result' = Thrown(ErrorLog(lexed.type, lexed.message, lexed.arg, lexed.line, lexed.col))
               /\ pc' = "idle"
               /\ UNCHANGED tokens
          ELSE /\ tokens' = Append(tokens, lexed.tok)
               /\ pc' = "tokenizeAll"
               /\ UNCHANGED result
    /\ UNCHANGED <<code, parsed, symbols, lastAssigned>>

\* new BlanketParser(lexed).parseTokens(); if (parsed.error) return parsed.error.log()
ParseTokens ==
    /\ pc = "parseTokens"
    /\ LET res == parseTokens(ResolveTokens(tokens, pos)) IN
       /\ parsed' = res
       /\ IF res.threw
          THEN result' = Thrown(TypeError) /\ pc' = "idle"
          ELSE IF IsError(res.error)
               THEN result' = ReturnedLog(log(res.error)) /\ pc' = "idle"
               ELSE pc' = "visit" /\ UNCHANGED result
    /\ UNCHANGED <<code, pos, tokens, symbols, lastAssigned>>

\* new BlanketInterpreter().visit(parsed.node, context) on the global table;
\* return IntrpRes.value ? IntrpRes.value : IntrpRes.error.log()
Visit ==
    /\ pc = "visit"
    /\ LET res == visit(parsed.node, symbols) IN
       /\ symbols' = res.table
       /\ result' = ReturnOf(res)
       /\ lastAssigned' = [n \in Names |-> Observe(lastAssigned[n], n, tokens, ReturnOf(res))]
    /\ pc' = "idle"
    /\ UNCHANGED <<code, pos, tokens, parsed>>

\* The steps of tokenizeAll, and the steps of a whole invocation
Lexer == TokenizeAll \/ GetToken \/ OmitWhitespace \/ ReadToken

Pipeline == Lexer \/ ParseTokens \/ Visit

Next == (\E c \in Programs : ParseCode(c)) \/ Pipeline

Spec == Init /\ [][Next]_vars

\* The same process fed only the texts that exercise the lexer
NextLexer == (\E c \in LexerTexts : ParseCode(c)) \/ Pipeline

\* Single-threaded and synchronous: a tokenizeAll that has begun keeps running
FairSpec == Init /\ [][NextLexer]_vars /\ WF_vars(Lexer)

(***************************************************************************)
(* Properties                                                              *)
(***************************************************************************)
\* The caller has the outcome of an invocation in hand
Done == pc = "idle" /\ result.kind # "pending"

\* tokenizeAll has returned its token sequence
LexedAll == tokens # <<>> /\ tokens[Len(tokens)].type = "EOF"

YieldsNumber(r) == Done /\ result.kind = "value" /\ result.value.value = r

YieldsError(type, message, arg) ==
    /\ Done
    /\ result.kind = "error"
    /\ result.err.type = type
    /\ result.err.message = message
    /\ result.err.arg = arg

\* The conditions of Conditions that evaluate to a nonzero number
ConditionHolds(c) == c \in {<<"1">>, <<"1", "=", "=", "1">>}

\* C1: a conditional chain yields the result of the first pair whose
\* condition is nonzero, and the else expression when every condition is 0.
C1_FirstTruthyCondition ==
    Done =>
      /\ \A c \in Conditions :
           code = Text(<<kIf, c, kThen, <<"1", "0">>, kElse, <<"2", "0">>>>)
             => YieldsNumber(IntNum(IF ConditionHolds(c) THEN 10 ELSE 20))
      /\ \A c \in Conditions, d \in Conditions :
           code = Text(<<kIf, c, kThen, <<"1", "0">>, kThen, d, kThen, <<"3", "0">>, kElse, <<"2", "0">>>>)
             => YieldsNumber(IntNum(IF ConditionHolds(c) THEN 10 ELSE IF ConditionHolds(d) THEN 30 ELSE 20))

Whitespace == {" ", "\t", "\r", "\n"}

\* The token sequence handed to the parser: one EOF token, in last place,
\* and before it only tokens read from characters of the text
TokenStreamShape ==
    pc = "parseTokens" =>
      /\ LexedAll
      /\ \A i \in 1..(Len(tokens) - 1) :
           /\ tokens[i].type \notin {"EOF", "undefined"}
           /\ tokens[i].type \notin {"INT", "FLOAT"} =>
                /\ tokens[i].value.s # <<>>
                /\ \A k \in 1..Len(tokens[i].value.s) : tokens[i].value.s[k] \notin Whitespace

\* C2: for every source text tokenizeAll terminates (it returns or raises),
\* and a returned token sequence has exactly one EOF token, as its last
\* element, and no token made of whitespace or of the position past the end.
C2_TokenizeAllTerminates ==
    /\ []TokenStreamShape
    /\ (pc = "tokenizeAll") ~> (pc \in {"parseTokens", "idle"})

\* The top-level expression parsed, and the token the parser stopped at
TopLevel == getExpression(ResolveTokens(tokens, pos), 1)

TrailingTokens ==
    /\ LexedAll
    /\ pc \in {"visit", "idle"}
    /\ ~TopLevel.threw
    /\ ~IsError(TopLevel.error)
    /\ currentTok(ResolveTokens(tokens, pos), TopLevel.idx).type # "EOF"

\* C3: when the top-level expression parses but the current token after it
\* is not EOF, the outcome is the syntax error "Bad Expression" and the
\* interpreter is never entered.
C3_TrailingTokensRejected ==
    TrailingTokens => pc = "idle" /\ YieldsError("Syntax Error", "Bad Expression", <<>>)

\* C4: parseTokens always returns a result object that holds either a node
\* or an error, never both and never neither, and it never throws.
C4_ParserReturnsResult ==
    (LexedAll /\ pc \in {"visit", "idle"}) =>
      /\ ~parsed.threw
      /\ IsError(parsed.error) # (parsed.node.kind # "null")

PowerOperands(a, b, c) == code = a \o <<"^">> \o b \o <<"^">> \o c

C6_LastWriteWins ==
    Done =>
      \A n \in Names :
        lastAssigned[n].status = "value" =>
          /\ code = n => YieldsNumber(lastAssigned[n].value)
          /\ code = n \o <<"+", "1">> => YieldsNumber(RAdd(lastAssigned[n].value, IntNum(1)))

C6_Witness ==
    /\ Done
    /\ code = <<"x", "+", "1">>
    /\ lastAssigned[<<"x">>] = [status |-> "value", value |-> IntNum(5)]
    /\ lastAssigned[<<"z">>].status = "value"
    /\ YieldsNumber(IntNum(6))

\* What the literals and sub-expressions used as operands evaluate to
LiteralValue(o) ==
    CASE o = <<"0", ".", "5">> -> Rat(1, 2)
      [] o = <<"(", "1", "+", "2", ")">> -> IntNum(3)
      [] o \in {<<"0">>, <<"0", ".", "0">>, <<"(", "1", "-", "1", ")">>, <<"-", "0">>} -> IntNum(0)
      [] OTHER -> IntNum(DigitVal(o[1]))

IsZero(o) == LiteralValue(o) = IntNum(0)

\* C7: `a and b` yields 1 when both operands are nonzero and 0 otherwise.
C7_AndYieldsBoolean ==
    Done =>
      \A a \in Operands, b \in Operands :
        code = Text(<<a, kAnd, b>>) => YieldsNumber(BoolNum(~IsZero(a) /\ ~IsZero(b)))

\* C8: `a or b` yields the value of a when a is nonzero and the value of b
\* otherwise, not normalised to 0/1.
C8_OrYieldsOperand ==
    Done =>
      \A a \in Operands, b \in Operands :
        code = Text(<<a, kOr, b>>)
          => YieldsNumber(IF ~IsZero(a) THEN LiteralValue(a) ELSE LiteralValue(b))

C8_Witness == Done /\ code = Text(<<<<"5">>, kOr, <<"0">>>>) /\ YieldsNumber(IntNum(5))

\* What the operands used in DivTexts evaluate to
IsBound(o) == o \notin Names \/ o \in DOMAIN symbols

OperandValue(o) == IF o \in Names THEN symbols[o].value ELSE LiteralValue(o)

\* C9: `a / b` yields the runtime error "Division by zero" exactly when the
\* right operand evaluates to zero, and the quotient otherwise.
C9_DivisionByZero ==
    Done =>
      \A a \in Dividends, b \in Divisors :
        (code = a \o <<"/">> \o b /\ IsBound(a) /\ IsBound(b)) =>
          IF OperandValue(b) = IntNum(0)
          THEN YieldsError("Runtime Error", "Division by zero", <<>>)
          ELSE /\ result.kind = "value"
               /\ IsRational(result.value.value)
               /\ RMul(result.value.value, OperandValue(b)) = OperandValue(a)

C9_Witness ==
    /\ Done
    /\ code = <<"5", "/", "z">>
    /\ <<"z">> \in DOMAIN symbols
    /\ symbols[<<"z">>].value = IntNum(0)
    /\ YieldsError("Runtime Error", "Division by zero", <<>>)

Identifiers ==
    Names \cup {<<"y">>, <<"c", "o", "n", "s", "t", "r", "u", "c", "t", "o", "r">>, <<"v", "a", "l", "u", "e", "O", "f">>}

\* C10: a reference to an identifier that was never assigned and is not a
\* seeded constant yields the runtime error "<name> is not defined".
C10_UnboundNameIsError ==
    Done =>
      \A n \in Identifiers :
        ((code = n \/ code = n \o <<"+", "1">>) /\ n \notin DOMAIN symbols)
          => YieldsError("Runtime Error", "is not defined", n)

\* The characters getToken has a rule for
Recognized == Whitespace \cup Digits \cup Letters \cup {"+", "-", "*", "/", "^", "(", ")", ">", "<", "=", "!"}

OffendingCharacter(t) == SelectSeq(t, LAMBDA ch : ch \notin Recognized)[1]

\* C11: a character that is not whitespace, a digit, a letter, an operator,
\* a parenthesis or a comparator character aborts the invocation with an
\* Invalid Token error whose message names that character.
C11_UnrecognizedCharacterNamed ==
    Done =>
      \A t \in UnrecognizedTexts :
        code = t =>
          /\ result.kind = "throw"
          /\ result.err.type = "Invalid Token"
          /\ result.err.message = "Unrecognized Character"
          /\ result.err.arg = <<OffendingCharacter(t)>>

\* The maximal run of digits and dots a text begins with, and its dots
RECURSIVE NumberRun(_)
NumberRun(t) ==
    IF t = <<>> \/ (t[1] \notin Digits /\ t[1] # ".") THEN <<>> ELSE <<t[1]>> \o NumberRun(Tail(t))

DotsOf(run) == Len(SelectSeq(run, LAMBDA ch : ch = "."))

\* C12: a run of digits and dots that starts at a digit yields one INT token
\* when it has no dot and one FLOAT token when it has one dot; a second dot
\* raises the Invalid Token error "Bad Float" and no token sequence is returned.
C12_NumberScanning ==
    \A t \in NumberTexts :
      (code = t /\ (Done \/ LexedAll)) =>
        IF DotsOf(NumberRun(t)) >= 2
        THEN /\ result.kind = "throw"
             /\ result.err.type = "Invalid Token"
             /\ result.err.message = "Bad Float"
             /\ ~LexedAll
             /\ parsed = ParseErrHandler(1)
        ELSE /\ LexedAll
             /\ tokens[1].type = (IF DotsOf(NumberRun(t)) = 0 THEN "INT" ELSE "FLOAT")
             /\ tokens[1].posStart.idx = 0
             /\ tokens[2].type \notin {"INT", "FLOAT"}
             /\ tokens[2].type = "EOF" <=> Len(NumberRun(t)) = Len(t)

C12_Witness ==
    /\ Done
    /\ code = <<"1", ".", "2", ".", "3">>
    /\ result.kind = "throw"
    /\ result.err.message = "Bad Float"
    /\ tokens = <<>>

\* C13: a conditional with no else whose conditions all evaluate to 0 gives
\* the caller of ParseCode an absence value: no number, no reported error
\* and no exception.
C13_NoMatchIsAbsence ==
    Done =>
      \A t \in NoElseTexts :
        code = t =>
          /\ result.kind \notin {"error", "throw"}
          /\ result.value.kind # "IntrpNumber"

\* C14: from loosest to tightest the levels are and/or, comparison (with
\* prefix not), + -, * /, unary sign, ^, atom; a parenthesised expression is
\* an atom; the binary levels other than ^ fold to the left.  Each expression
\* of PrecedenceCases evaluates to the value that this order gives it.
C14_Precedence ==
    Done => \A k \in PrecedenceCases : code = k.text => YieldsNumber(IntNum(k.value))

C14_Witness ==
    /\ Done
    /\ code = <<"1", " ", "o", "r", " ", "0", " ", "a", "n", "d", " ", "0">>
    /\ parsed.node.kind = "BinaryNode"
    /\ parsed.node.leftNode.kind = "BinaryNode"
    /\ YieldsNumber(IntNum(0))

\* C15: the string of every error, of every kind, ends in the one-based line
\* and the one-based column of the first character of the offending lexeme.
C15_OneBasedPosition ==
    Done =>
      \A k \in ErrorCases :
        code = k.text =>
          /\ result.kind \in {"error", "throw"}
          /\ result.err.type = k.type
          /\ result.err.line = k.line
          /\ result.err.col = k.col

\* The tracker that stands before the character of index idx (zero-based)
RECURSIVE PositionOf(_, _)
PositionOf(c, idx) ==
    IF idx = 0 THEN PositionTracker(0, 1, 1) ELSE advance(PositionOf(c, idx - 1), c[idx])

\* The characters a token of this type and value can begin with
FirstCharacters(tok) == IF tok.type \in {"INT", "FLOAT"} THEN Digits ELSE {tok.value.s[1]}

\* The start a token records, as it reads now, is where its lexeme begins
StartsAtLexeme(toks, i) ==
    LET start == Deref(toks[i].posStart, pos) IN
      /\ start.ref = "copy"
      /\ start.idx < Len(code)
      /\ code[start.idx + 1] \in FirstCharacters(toks[i])
      /\ start = copy(PositionOf(code, start.idx))
      /\ i > 1 => Deref(toks[i - 1].posStart, pos).idx < start.idx

\* C16: once tokenizeAll has finished, the start position that each token
\* records is still the index, line and column of the token's first character.
C16_TokenStartFixed ==
    (pc = "parseTokens" /\ LexedAll) =>
      \A i \in 1..(Len(tokens) - 1) : StartsAtLexeme(tokens, i)

\* The greatest number of tokens consumed at the raising of an error
MostConsumed(raised) ==
    CHOOSE m \in {raised[k].consumed : k \in DOMAIN raised} :
      \A k \in DOMAIN raised : raised[k].consumed <= m

\* C17: of the errors raised while parsing one token sequence, parseTokens
\* returns one raised after the greatest number of consumed tokens; an error
\* raised with no token consumed gives way to every later failure, and an
\* error raised after a consumed token is never replaced by a failure raised
\* with no further progress.
C17_FurthestProgressWins ==
    (LexedAll /\ pc = "idle" /\ ~parsed.threw /\ IsError(parsed.error)) =>
      LET raised == parsed.raised IN
        /\ raised # <<>>
        /\ \E k \in DOMAIN raised :
             raised[k].error = parsed.error /\ raised[k].consumed = MostConsumed(raised)
        /\ raised[1].consumed = 0 => parsed.error = raised[Len(raised)].error
        /\ \A k \in DOMAIN raised :
             (raised[k].consumed >= 1 /\ \A j \in DOMAIN raised : j > k => raised[j].consumed = raised[k].consumed)
               => parsed.error = raised[k].error

\* The invocation of `sclr n = e` that is about to be evaluated ends in a
\* runtime error
AssignmentFails(n) ==
    /\ pc = "visit"
    /\ parsed.node.kind = "SclrAssNode"
    /\ parsed.node.nameToken.value = JStr(n)
    /\ result'.kind = "error"
    /\ result'.err.type = "Runtime Error"

Binding(table, n) == SymbolTableGet(table, n)

\* The right-hand side holds no assignment to n of its own
NoInnerAssignment(toks, n) ==
    \A i \in 2..(Len(toks) - 1) : ~(IsSclr(toks[i]) /\ toks[i + 1].value = JStr(n))

\* C18 as claimed: when the right-hand side of `sclr n = e` yields a runtime
\* error, the binding of n after the invocation is the one before it.
C18_BindingUnchanged ==
    [][\A n \in Names : AssignmentFails(n) => Binding(symbols', n) = Binding(symbols, n)]_vars

\* C18 amended: when the right-hand side of `sclr n = e` yields a runtime
\* error, the error is the result and the assignment itself writes nothing:
\* the symbol table is as the evaluation of e left it, so the binding of n is
\* the one before the invocation unless e holds an assignment to n.
C18_FailedAssignmentWritesNothing ==
    [][\A n \in Names :
         AssignmentFails(n) =>
           /\ symbols' = visit(parsed.node.valNode, symbols).table
           /\ result' = ReturnedLog(log(visit(parsed.node.valNode, symbols).error))
           /\ NoInnerAssignment(tokens, n) => Binding(symbols', n) = Binding(symbols, n)]_vars

C18_Witness ==
    /\ Done
    /\ code = Text(<<kSclr, <<"x">>, <<"=">>, <<"1", "/", "0">>>>)
    /\ YieldsError("Runtime Error", "Division by zero", <<>>)
    /\ <<"x">> \in DOMAIN symbols
    /\ symbols[<<"x">>].value = IntNum(5)

\* C19: the value that the evaluation of a node returns carries that node's
\* own span, whatever the kind of the node (here the node of the whole text).
C19_ValueCarriesNodeSpan ==
    (Done /\ LexedAll /\ result.kind = "value") =>
      /\ result.value.posStart = parsed.node.posStart
      /\ result.value.posEnd = parsed.node.posEnd

\* C20: once a pair of a conditional is selected only its result expression
\* is evaluated, so an assignment in a later condition, in the result of an
\* unselected pair or in an unreached else never changes the symbol table.
C20_UnselectedNeverEvaluated ==
    [][(pc = "visit" /\ code \in BranchAssignTexts) => symbols' = symbols]_vars

\* The outcome of the evaluation that the step about to be taken performs
YieldsErrorNext(message, arg) ==
    /\ result'.kind = "error"
    /\ result'.err.type = "Runtime Error"
    /\ result'.err.message = message
    /\ result'.err.arg = arg

YieldsNumberNext(r) == result'.kind = "value" /\ result'.value.value = r

BindsNext(n, r) == n \in DOMAIN symbols' /\ symbols'[n].value = r

Failed(res) == res.threw \/ IsError(res.error)

\* The table a binary operation leaves: that of its left operand when the
\* left operand fails, and otherwise that of its right operand evaluated on
\* what the left operand left
OperandsInOrder(node, table) ==
    LET left == visit(node.leftNode, table) IN
      IF Failed(left) THEN left.table ELSE visit(node.rightNode, left.table).table

\* C21: of every binary operation, `and` and `or` included, the left operand
\* is evaluated first and the right operand exactly when the left succeeded,
\* whatever value the left operand has.
C21_BothOperandsEvaluated ==
    [][pc = "visit" =>
         /\ parsed.node.kind = "BinaryNode" => symbols' = OperandsInOrder(parsed.node, symbols)
         /\ code = Text(<<<<"1">>, kOr, <<"1", "/", "0">>>>)
              => YieldsErrorNext("Division by zero", <<>>) /\ symbols' = symbols
         /\ code = Text(<<<<"0">>, kAnd, AssignX>>)
              => YieldsNumberNext(IntNum(0)) /\ BindsNext(<<"x">>, IntNum(1))
         /\ code = Text(<<<<"1">>, kOr, AssignX>>)
              => YieldsNumberNext(IntNum(1)) /\ BindsNext(<<"x">>, IntNum(1))
         /\ code = Text(<<<<"(", "1", "/", "0", ")">>, <<"+">>, AssignX>>)
              => YieldsErrorNext("Division by zero", <<>>) /\ symbols' = symbols
         /\ code = Text(<<AssignX, <<"+">>, <<"x">>>>)
              => YieldsNumberNext(IntNum(2)) /\ BindsNext(<<"x">>, IntNum(1))
         /\ code = Text(<<<<"x">>, <<"+">>, AssignX>>)
              => IF <<"x">> \in DOMAIN symbols
                 THEN /\ YieldsNumberNext(RAdd(symbols[<<"x">>].value, IntNum(1)))
                      /\ BindsNext(<<"x">>, IntNum(1))
                 ELSE YieldsErrorNext("is not defined", <<"x">>) /\ symbols' = symbols]_vars

C21_Witness ==
    /\ Done
    /\ code = Text(<<<<"0">>, kAnd, AssignX>>)
    /\ YieldsNumber(IntNum(0))
    /\ <<"x">> \in DOMAIN symbols
    /\ symbols[<<"x">>].value = IntNum(1)
    /\ symbols[<<"x">>].posStart.idx = 16

\* C22: a runtime error rolls nothing back: the assignments that completed
\* before the failing sub-expression stay in the symbol table and are read
\* by later invocations; an invocation that fails in the lexer or in the
\* parser (every step but the interpreter's) leaves the table unchanged.
C22_NoRollback ==
    [][/\ pc # "visit" => symbols' = symbols
       /\ code' \in FailBeforeVisitTexts
            => pc' # "visit" /\ (pc' = "idle" => result'.kind \in {"error", "throw"})
       /\ (pc = "visit" /\ code = FailAfterAssignText)
            => YieldsErrorNext("Division by zero", <<>>) /\ BindsNext(<<"x">>, IntNum(1))
       /\ (pc = "visit" /\ code = <<"x">> /\ <<"x">> \in DOMAIN symbols)
            => YieldsNumberNext(symbols[<<"x">>].value) /\ symbols' = symbols]_vars

\* `x` evaluates to 1, read from the binding that `(sclr x = 1) + 1/0` left
C22_Witness ==
    /\ Done
    /\ code = <<"x">>
    /\ YieldsNumber(IntNum(1))
    /\ symbols[<<"x">>].posStart.idx = 10
    /\ symbols[<<"x">>].posEnd.idx = Len(FailAfterAssignText)

====
